---- MODULE Spec2Model ----
(***************************************************************************)
(* Model of the audio tracks of sarabanda (src/src/song.py): WavSong, the  *)
(* chunked track with its mutex-guarded cursor, and SongPair, the two-lane *)
(* track, driven by a main (render/control) thread and by the audio-device *)
(* callback thread of every open output stream.                            *)
(*                                                                         *)
(* Every thread runs a stack of steps.  A call pushes the straight-line    *)
(* body of the method; every lock acquisition and every critical section   *)
(* is a step of its own, so that the two threads interleave exactly where  *)
(* the code lets them.                                                     *)
(*                                                                         *)
(* The output stream is PyAudio's callback-mode stream: the device pulls   *)
(* one buffer of CHUNK frames per callback; a callback that hands back     *)
(* fewer bytes than one buffer completes the stream (PyAudio pads it with  *)
(* silence and takes the flag as paComplete), is_active() turns false once *)
(* that last buffer has been played, and stop_stream() returns only when   *)
(* no callback is running.  open() returns the stream already started, so  *)
(* callbacks may run before play() has stored the stream in _stream.       *)
(***************************************************************************)
EXTENDS Integers, Sequences, FiniteSets, TLC

\* ------------------------------------------------------------------ bounds

\* Frames per chunk (WavSong.CHUNK is 1024 in the code; scaled down here).
CHUNK == 2
\* Longest wave file, in frames, a track is constructed from.
MaxFrames == 3
\* The advance counter `nexts` saturates here.
MaxNexts == 4
\* The largest pad given to normalized_fft.
MaxPad == 3
\* The largest number of bands of a visualizer.
MaxBands == 4
\* The largest line_width and spacing of a BarVisualizer.
MaxLineWidth == 2
MaxSpacing == 1
\* Draw calls made on one visualizer.
MaxDraws == 3

\* ---------------------------------------------------------------- constants

RMS_POWER_CLIP == 10000

\* Sample values a frame of a wave file may hold.  The transport of a track
\* depends on the number of frames only, so one non-silent value is enough here.
Samples == {1}

\* The two WavSongs of a SongPair: self._base and self._vocals.
PairSongs == {"base", "vocals"}
MAIN == "main"

Min(a, b) == IF a < b THEN a ELSE b

\* ------------------------------------------------------------ pure functions

\* int16 arithmetic: the value of x after wrapping to 16 bits, two's complement.
WrapInt16(x) == ((x + 32768) % 65536) - 32768
SquareInt16(x) == WrapInt16(x * x)
\* np.power(samples, 2, dtype=np.int64): the squares are taken in 64 bits.
Square(x) == x * x

RECURSIVE SumSquares(_)
SumSquares(samples) ==
    IF samples = <<>> THEN 0
    ELSE Square(Head(samples)) + SumSquares(Tail(samples))

\* rms_power(samples): sqrt(mean(samples^2)), clipped to [0, RMS_POWER_CLIP],
\* divided by RMS_POWER_CLIP.  The result p is a real number; it is
\* represented exactly by its square as the fraction num/den
\* (p^2 = min(sum, CLIP^2 * n) / (CLIP^2 * n)).
rms_power(samples) ==
    LET n == Len(samples)
        cap == RMS_POWER_CLIP * RMS_POWER_CLIP * n
    IN  [num |-> Min(SumSquares(samples), cap), den |-> cap]

OnePower == [num |-> 1, den |-> 1]
\* The literal 0 stored as the sentinel's power.
ZeroPower == [num |-> 0, den |-> 1]
IsZero(p) == p.num = 0

\* wf.readframes(CHUNK): the next at most CHUNK frames of the file.
readframes(frames, n) == SubSeq(frames, 1, Min(n, Len(frames)))
rest(frames, n) == SubSeq(frames, Min(n, Len(frames)) + 1, Len(frames))

\* The loop of WavSong.__init__: one stored chunk per non-empty read.
RECURSIVE ReadChunks(_)
ReadChunks(frames) ==
    IF readframes(frames, CHUNK) = <<>> THEN <<>>
    ELSE <<readframes(frames, CHUNK)>> \o ReadChunks(rest(frames, CHUNK))

\* The sentinel appended to _data: the empty string.
FullSilence == [i \in 1..CHUNK |-> 0]
DataSentinel == <<>>

\* WavSong.__init__: the _data list of a file.
InitData(frames) == ReadChunks(frames) \o <<DataSentinel>>
\* WavSong.__init__: the _pow list of a file.
InitPow(frames) ==
    [i \in 1..Len(ReadChunks(frames)) |-> rms_power(ReadChunks(frames)[i])]
        \o <<ZeroPower>>

\* ---- normalized_fft ----

RECURSIVE SumOver(_, _)
\* Sum of f over the finite set S.
SumOver(f, S) ==
    IF S = {} THEN 0
    ELSE LET e == CHOOSE x \in S : TRUE IN f[e] + SumOver(f, S \ {e})

\* 2 * cos(2 * pi * m / n), an integer for the transform lengths in FftLens.
FftLens == {1, 2, 3, 4, 6}
TwoCos(n, m) ==
    CASE n = 1 -> 2
      [] n = 2 -> IF m = 0 THEN 2 ELSE -2
      [] n = 3 -> IF m = 0 THEN 2 ELSE -1
      [] n = 4 -> <<2, 0, -2, 0>>[m + 1]
      [] n = 6 -> <<2, 1, -1, -2, -1, 1>>[m + 1]

\* |rfft(x)[k]|^2, the squared magnitude of bin k of the real-input transform:
\* sum over j, l of x[j] * x[l] * cos(2 * pi * k * (j - l) / n).
MagSq(x, k) ==
    LET n == Len(x)
        P == (1..n) \X (1..n)
    IN  SumOver([p \in P |-> x[p[1]] * x[p[2]] * TwoCos(n, (k * (p[1] - p[2])) % n)], P)
            \div 2

\* np.abs(rfft(x)): n \div 2 + 1 bins, each kept as its square.
AbsRfftSq(x) == [k \in 1..(Len(x) \div 2 + 1) |-> MagSq(x, k - 1)]

PadNone(v, pad) == v
\* `if fft.shape[0] < pad: fft = np.concatenate((fft, zeros(pad - fft.shape[0])))`
PadRight(v, pad) ==
    IF Len(v) < pad THEN v \o [i \in 1..(pad - Len(v)) |-> 0] ELSE v

RECURSIVE SeqSum(_)
SeqSum(v) == IF v = <<>> THEN 0 ELSE Head(v) + SeqSum(Tail(v))

NormNoGuard(normSq) == normSq
\* `norm or 1`, on the square of the norm.
NormOrOne(normSq) == IF normSq = 0 THEN 1 ELSE normSq

\* normalized_fft(samples, pad).  Every entry e of the result is a real number,
\* represented exactly by its square as the fraction num/den
\* (e^2 = |bin|^2 / norm^2).
normalized_fft(samples, pad) ==
    LET v == PadRight(AbsRfftSq(samples), pad)
        d == NormOrOne(SeqSum(v))
    IN  [k \in 1..Len(v) |-> [num |-> v[k], den |-> d]]

\* np.array([0] * n)
Zeros(n) == [k \in 1..n |-> [num |-> 0, den |-> 1]]

\* The sentinel appended to _fft: np.array([0] * WavSong.CHUNK).
FftSentinel == Zeros(CHUNK)

InitFftNoSentinel(frames) ==
    [i \in 1..Len(ReadChunks(frames)) |->
        normalized_fft(ReadChunks(frames)[i], CHUNK \div 2)]
\* WavSong.__init__: the _fft list of a file.
InitFft(frames) ==
    [i \in 1..Len(ReadChunks(frames)) |->
        normalized_fft(ReadChunks(frames)[i], CHUNK \div 2)]
        \o <<FftSentinel>>

\* EmptySong.__init__
EmptySongInit == [data |-> [i \in 1..CHUNK |-> 0], fft |-> Zeros(CHUNK \div 2)]

WaveFiles == UNION {[1..n -> Samples] : n \in 0..MaxFrames}

\* -------------------------------------------------------------------- state

VARIABLES
    file,      \* file[s]: the frames of the wave file WavSong s was constructed from
    fft,       \* fft[s]: WavSong._fft
    arg,       \* the argument of the feature function under evaluation
    res,       \* the result of that evaluation
    empty,     \* the fields of the EmptySong: _data and _fft
    viz,       \* the fields of a visualizer
    game,      \* the fields of a SongGame
    data,      \* data[s]: WavSong._data, the stored chunks (index i+1 holds chunk i)
    pow,       \* pow[s]: WavSong._pow
    index,     \* index[s]: WavSong._index, the cursor
    lock,      \* lock[s]: holder of WavSong._lock, or "free"
    stream,    \* stream[s]: "None", or the state of the PyAudio stream in _stream
    producer,  \* producer[s]: the stream_callback registered with the open stream
    opened,    \* opened[s]: state of the stream pyaudio.open() has returned to a
               \* play() that has not stored it in _stream yet, else "None"
    stack,     \* stack[t]: the steps thread t still has to run
    cbData,    \* cbData[s]: local `data` of the callback running on s's stream
    mcall,     \* the call the main thread is running
    newFft,    \* cursor value at which the running draw call read the spectrum
    nexts      \* nexts[s]: next() bodies run on s since its cursor was last set to 0

\* The variables no transport step changes.
aux == <<file, fft, arg, res, empty, viz, game>>

\* The WavSongs that have been constructed.
Songs == DOMAIN data
\* One audio-callback thread per WavSong, named after the WavSong.
Threads == {MAIN} \cup Songs
songVars == <<aux, data, pow, index, lock, stream, producer, opened, cbData, nexts>>
vars == <<aux, data, pow, index, lock, stream, producer, opened, stack, cbData, mcall, newFft, nexts>>

\* Number of stored chunks of s, the sentinel included.
L(s) == Len(data[s])

\* WavSong.playing
playing(s) == stream[s] # "None" /\ stream[s] \in {"active", "complete"}

\* SongPair.playing
SongPair_playing == playing("base")

Step(k, s, cb) == [k |-> k, s |-> s, cb |-> cb]
NoCall == [op |-> "none", s |-> "base", pre |-> FALSE]
NoFft == -1
NoArg == [fn |-> "none", samples |-> <<>>, pad |-> 0, scale |-> 1]
\* No visualizer and no game has been constructed.
NoViz == [kind |-> "none"]
NoGame == [pc |-> "none"]
NoRes == [done |-> FALSE, power |-> ZeroPower, spectrum |-> <<>>, scaled |-> <<>>]

Idle(t) == stack[t] = <<>>
Top(t) == Head(stack[t])
\* The step on top of t's stack is done; the main thread's call returns with its last step.
Returns(t) == Tail(stack[t]) = <<>>
Pop(t) ==
    /\ stack' = [stack EXCEPT ![t] = Tail(@)]
    /\ mcall' = IF t = MAIN /\ Returns(t) THEN NoCall ELSE mcall

LockedSteps == {"data", "power", "fft", "next", "play_reset", "reset_index"}

\* WavSong.__init__ for every track of f, f[s] being the frames of the file of s.
Constructed(f) ==
    /\ file = f
    /\ data = [s \in DOMAIN f |-> InitData(f[s])]
    /\ pow = [s \in DOMAIN f |-> InitPow(f[s])]
    /\ fft = [s \in DOMAIN f |-> InitFft(f[s])]
    /\ index = [s \in DOMAIN f |-> 0]
    /\ lock = [s \in DOMAIN f |-> "free"]
    /\ stream = [s \in DOMAIN f |-> "None"]
    /\ producer = [s \in DOMAIN f |-> "none"]
    /\ opened = [s \in DOMAIN f |-> "None"]
    /\ stack = [t \in {MAIN} \cup DOMAIN f |-> <<>>]
    /\ cbData = [s \in DOMAIN f |-> <<>>]
    /\ mcall = NoCall
    /\ newFft = NoFft
    /\ nexts = [s \in DOMAIN f |-> 0]

\* The state after the WavSongs of a SongPair have been constructed from two files.
TrackInit ==
    /\ \E fb \in WaveFiles, fv \in WaveFiles :
        Constructed([s \in PairSongs |-> IF s = "base" THEN fb ELSE fv])
    /\ empty = EmptySongInit

Init ==
    /\ TrackInit
    /\ arg = NoArg
    /\ res = NoRes
    /\ viz = NoViz
    /\ game = NoGame


\* ------------------------------------------------------------- locked steps

\* self._lock.acquire(): blocks until the lock of the step's WavSong is free.
Lock_acquire(t) ==
    /\ ~Idle(t)
    /\ Top(t).k \in LockedSteps
    /\ lock[Top(t).s] = "free"
    /\ lock' = [lock EXCEPT ![Top(t).s] = t]
    /\ UNCHANGED <<aux, data, pow, index, stream, producer, opened, stack, cbData, mcall, newFft, nexts>>

\* Thread t is inside the critical section of step kind k.
Holding(t, k) ==
    /\ ~Idle(t)
    /\ Top(t).k = k
    /\ lock[Top(t).s] = t

\* self._lock.release()
KeepLock(t) == lock' = lock
Release(t) == lock' = [lock EXCEPT ![Top(t).s] = "free"]

\* WavSong.data, read by the callback of stream t into its local `data`.
WavSong_data(t) ==
    /\ Holding(t, "data")
    /\ cbData' = [cbData EXCEPT ![t] = data[Top(t).s][index[Top(t).s] + 1]]
    /\ Release(t)
    /\ Pop(t)
    /\ UNCHANGED <<aux, data, pow, index, stream, producer, opened, newFft, nexts>>

\* WavSong.fft, read by a draw call: the spectrum of the chunk at the cursor.
WavSong_fft(t) ==
    /\ Holding(t, "fft")
    /\ newFft' = IF Returns(t) THEN NoFft ELSE index[Top(t).s]
    /\ Release(t)
    /\ Pop(t)
    /\ UNCHANGED <<aux, data, pow, index, stream, producer, opened, cbData, nexts>>

\* The value WavSong.power returns: `self._pow[self._index]`.
PowerAt(s) == pow[s][index[s] + 1]

\* WavSong.power, read by a draw call; the call has then read both features.
WavSong_power(t) ==
    /\ Holding(t, "power")
    /\ newFft' = NoFft
    /\ Release(t)
    /\ Pop(t)
    /\ UNCHANGED <<aux, data, pow, index, stream, producer, opened, cbData, nexts>>

NextIndexNoClamp(i, len) == i + 1
NextIndexWrap(i, len) == (i + 1) % len
\* The cursor after next(): `if self._index < len(self._data) - 1: self._index += 1`.
NextIndex(i, len) == IF i < len - 1 THEN i + 1 ELSE i

\* WavSong.next, inside the lock.
WavSong_next(t) ==
    /\ Holding(t, "next")
    /\ index' = [index EXCEPT ![Top(t).s] = NextIndex(@, L(Top(t).s))]
    /\ nexts' = [nexts EXCEPT ![Top(t).s] = Min(@ + 1, MaxNexts)]
    /\ Release(t)
    /\ Pop(t)
    /\ UNCHANGED <<aux, data, pow, stream, producer, opened, cbData, newFft>>

\* ---------------------------------------------------------- transport steps

NoPlayGuard(s) == FALSE
\* The guard of WavSong.play: `if self._stream is not None: return`.
StreamIsSet(s) == stream[s] # "None"

\* WavSong.play, the "don't play twice" test.
WavSong_play_check(t) ==
    /\ ~Idle(t)
    /\ Top(t).k = "play_check"
    /\ IF StreamIsSet(Top(t).s)
       THEN Pop(t)
       ELSE /\ stack' = [stack EXCEPT ![t] =
                    <<Step("play_reset", Top(t).s, Top(t).cb),
                      Step("play_open", Top(t).s, Top(t).cb),
                      Step("play_assign", Top(t).s, Top(t).cb)>> \o Tail(@)]
            /\ UNCHANGED mcall
    /\ UNCHANGED <<aux, data, pow, index, lock, stream, producer, opened, cbData, newFft, nexts>>

WavSong_play_reset_keeps_index(t) ==
    /\ Holding(t, "play_reset")
    /\ index' = index
    /\ nexts' = [nexts EXCEPT ![Top(t).s] = 0]
    /\ Release(t)
    /\ Pop(t)
    /\ UNCHANGED <<aux, data, pow, stream, producer, opened, cbData, newFft>>

\* WavSong.play: the cursor reset, inside the lock.
WavSong_play_reset(t) ==
    /\ Holding(t, "play_reset")
    /\ index' = [index EXCEPT ![Top(t).s] = 0]
    /\ nexts' = [nexts EXCEPT ![Top(t).s] = 0]
    /\ Release(t)
    /\ Pop(t)
    /\ UNCHANGED <<aux, data, pow, stream, producer, opened, cbData, newFft>>

\* The state of the PyAudio stream of s, stored in _stream or not yet.
Device(s) == IF opened[s] # "None" THEN opened[s] ELSE stream[s]

\* WavSong.play: self._pyaudio.open(..., stream_callback=...) returns a stream
\* that is already started (PyAudio's open() starts it unless start=False), so
\* the device may pull buffers before play() has stored the stream.
WavSong_play_open(t) ==
    /\ ~Idle(t)
    /\ Top(t).k = "play_open"
    /\ opened' = [opened EXCEPT ![Top(t).s] = "active"]
    /\ producer' = [producer EXCEPT ![Top(t).s] = Top(t).cb]
    /\ Pop(t)
    /\ UNCHANGED <<aux, data, pow, index, lock, stream, cbData, newFft, nexts>>

\* WavSong.play: `self._stream = ...` stores the stream as it is by now, and
\* start_stream() on a stream that open() started does nothing.
WavSong_play_assign(t) ==
    /\ ~Idle(t)
    /\ Top(t).k = "play_assign"
    /\ stream' = [stream EXCEPT ![Top(t).s] = opened[Top(t).s]]
    /\ opened' = [opened EXCEPT ![Top(t).s] = "None"]
    /\ Pop(t)
    /\ UNCHANGED <<aux, data, pow, index, lock, producer, cbData, newFft, nexts>>

StopStreamReturnsAtOnce(s) == TRUE
\* stop_stream() returns once no callback of the stream is running.
StopStreamReturns(s) == Idle(s)

WavSong_stop_keeps_stream(t) ==
    /\ ~Idle(t)
    /\ Top(t).k = "stop"
    /\ IF stream[Top(t).s] = "None"
       THEN UNCHANGED <<stream, producer>>
       ELSE /\ StopStreamReturns(Top(t).s)
            /\ stream' = [stream EXCEPT ![Top(t).s] = "inactive"]
            /\ producer' = [producer EXCEPT ![Top(t).s] = "none"]
    /\ Pop(t)
    /\ UNCHANGED <<aux, data, pow, index, lock, opened, cbData, newFft, nexts>>

\* WavSong.stop: stop_stream(), close() and `self._stream = None`; the caller
\* is blocked in stop_stream() while a callback of the stream is running.
WavSong_stop(t) ==
    /\ ~Idle(t)
    /\ Top(t).k = "stop"
    /\ IF stream[Top(t).s] = "None"
       THEN UNCHANGED <<stream, producer>>
       ELSE /\ StopStreamReturns(Top(t).s)
            /\ stream' = [stream EXCEPT ![Top(t).s] = "None"]
            /\ producer' = [producer EXCEPT ![Top(t).s] = "none"]
    /\ Pop(t)
    /\ UNCHANGED <<aux, data, pow, index, lock, opened, cbData, newFft, nexts>>

\* WavSong.reset: the cursor reset after stop(), inside the lock.
WavSong_reset_index(t) ==
    /\ Holding(t, "reset_index")
    /\ index' = [index EXCEPT ![Top(t).s] = 0]
    /\ nexts' = [nexts EXCEPT ![Top(t).s] = 0]
    /\ Release(t)
    /\ Pop(t)
    /\ UNCHANGED <<aux, data, pow, stream, producer, opened, cbData, newFft>>

\* ------------------------------------------------------ audio-device thread

\* The body of the callback registered with the stream.
\* "default": callback of WavSong.play; "pair": callback of SongPair.play.
CallbackBodyVocalsFirst(s, cb) ==
    IF cb = "pair"
    THEN <<Step("data", "base", "none"), Step("next", "vocals", "none"),
           Step("next", "base", "none"), Step("return", s, "none")>>
    ELSE <<Step("data", s, "none"), Step("next", s, "none"), Step("return", s, "none")>>
CallbackBody(s, cb) ==
    IF cb = "pair"
    THEN <<Step("data", "base", "none"), Step("next", "base", "none"),
           Step("next", "vocals", "none"), Step("return", s, "none")>>
    ELSE <<Step("data", s, "none"), Step("next", s, "none"), Step("return", s, "none")>>

\* The device asks the active stream of s for the next buffer.
StreamPull(s) ==
    /\ Device(s) = "active"
    /\ Idle(s)
    /\ stack' = [stack EXCEPT ![s] = CallbackBody(s, producer[s])]
    /\ UNCHANGED <<aux, data, pow, index, lock, stream, producer, opened, cbData, mcall, newFft, nexts>>

AnyBuffer(d) == TRUE
\* A buffer shorter than the CHUNK frames the device asked for.
ShortBuffer(d) == Len(d) < CHUNK

\* `return data, pyaudio.paContinue`
callback_return(s) ==
    /\ ~Idle(s)
    /\ Top(s).k = "return"
    /\ LET d == IF Device(s) = "active" /\ ShortBuffer(cbData[s]) THEN "complete" ELSE Device(s)
       IN  IF opened[s] # "None"
           THEN opened' = [opened EXCEPT ![s] = d] /\ stream' = stream
           ELSE stream' = [stream EXCEPT ![s] = d] /\ opened' = opened
    /\ cbData' = [cbData EXCEPT ![s] = <<>>]
    /\ Pop(s)
    /\ UNCHANGED <<aux, data, pow, index, lock, producer, newFft, nexts>>

\* The last buffer of a completed stream has been played: is_active() is false.
StreamDrain(s) ==
    /\ Device(s) = "complete"
    /\ IF opened[s] # "None"
       THEN opened' = [opened EXCEPT ![s] = "inactive"] /\ stream' = stream
       ELSE stream' = [stream EXCEPT ![s] = "inactive"] /\ opened' = opened
    /\ UNCHANGED <<aux, data, pow, index, lock, producer, stack, cbData, mcall, newFft, nexts>>

\* ---------------------------------------------------- calls of the main thread

\* The main thread enters a method: `pre` keeps playing() as it was at the call.
Call(op, s, body) ==
    /\ stack' = [stack EXCEPT ![MAIN] = body]
    /\ mcall' = [op |-> op, s |-> s, pre |-> playing(s)]
    /\ UNCHANGED <<songVars, newFft>>

WavSong_play_body(s, cb) == <<Step("play_check", s, cb)>>
WavSong_stop_body(s) == <<Step("stop", s, "none")>>
WavSong_reset_body_no_stop(s) == <<Step("reset_index", s, "none")>>
\* WavSong.reset: stop(), then the cursor reset.
WavSong_reset_body(s) == WavSong_stop_body(s) \o <<Step("reset_index", s, "none")>>
WavSong_next_body(s) == <<Step("next", s, "none")>>
SongPair_play_body_both ==
    WavSong_play_body("vocals", "default") \o WavSong_play_body("base", "pair")
SongPair_play_body == WavSong_play_body("base", "pair")
SongPair_stop_body_keeps_vocals == WavSong_stop_body("base") \o WavSong_stop_body("vocals")
SongPair_stop_body == WavSong_stop_body("base") \o WavSong_reset_body("vocals")
SongPair_reset_body == SongPair_stop_body \o WavSong_reset_body("base")
SongPair_next_body == WavSong_next_body("base") \o WavSong_next_body("vocals")
RingVisualizer_draw_body_advances(s) ==
    <<Step("fft", s, "none"), Step("power", s, "none"), Step("next", s, "none")>>
\* RingVisualizer.draw: `song.fft[:self._bands:]`, then `song.power`.
RingVisualizer_draw_body(s) == <<Step("fft", s, "none"), Step("power", s, "none")>>
\* BarVisualizer.draw: `song.fft[:self._bands:]`.
BarVisualizer_draw_body(s) == <<Step("fft", s, "none")>>

WavSong_play(s) ==
    /\ Idle(MAIN)
    /\ Call("WavSong.play", s, WavSong_play_body(s, "default"))
WavSong_stop_call(s) ==
    /\ Idle(MAIN)
    /\ Call("WavSong.stop", s, WavSong_stop_body(s))
WavSong_reset(s) ==
    /\ Idle(MAIN)
    /\ Call("WavSong.reset", s, WavSong_reset_body(s))
WavSong_next_call(s) ==
    /\ Idle(MAIN)
    /\ Call("WavSong.next", s, WavSong_next_body(s))
SongPair_play ==
    /\ Idle(MAIN)
    /\ Call("SongPair.play", "base", SongPair_play_body)
SongPair_stop ==
    /\ Idle(MAIN)
    /\ Call("SongPair.stop", "base", SongPair_stop_body)
SongPair_reset ==
    /\ Idle(MAIN)
    /\ Call("SongPair.reset", "base", SongPair_reset_body)
SongPair_next ==
    /\ Idle(MAIN)
    /\ Call("SongPair.next", "base", SongPair_next_body)
RingVisualizer_draw(s) ==
    /\ Idle(MAIN)
    /\ Call("RingVisualizer.draw", s, RingVisualizer_draw_body(s))
BarVisualizer_draw(s) ==
    /\ Idle(MAIN)
    /\ Call("BarVisualizer.draw", s, BarVisualizer_draw_body(s))

\* WavSongs whose methods the main thread also calls directly; the secondary
\* lane is driven through the SongPair only, as in SongGame.
DirectSongs == {"base"}

Next ==
    \/ \E s \in DirectSongs : WavSong_play(s)
    \/ \E s \in DirectSongs : WavSong_stop_call(s)
    \/ \E s \in DirectSongs : WavSong_reset(s)
    \/ \E s \in DirectSongs : WavSong_next_call(s)
    \/ SongPair_play
    \/ SongPair_stop
    \/ SongPair_reset
    \/ SongPair_next
    \/ \E s \in Songs : RingVisualizer_draw(s)
    \/ \E s \in Songs : BarVisualizer_draw(s)
    \/ \E t \in Threads : Lock_acquire(t)
    \/ \E t \in Songs : WavSong_data(t)
    \/ WavSong_fft(MAIN)
    \/ WavSong_power(MAIN)
    \/ \E t \in Threads : WavSong_next(t)
    \/ WavSong_play_check(MAIN)
    \/ WavSong_play_reset(MAIN)
    \/ WavSong_play_open(MAIN)
    \/ WavSong_play_assign(MAIN)
    \/ WavSong_stop(MAIN)
    \/ WavSong_reset_index(MAIN)
    \/ \E s \in Songs : StreamPull(s)
    \/ \E s \in Songs : callback_return(s)
    \/ \E s \in Songs : StreamDrain(s)

Spec == Init /\ [][Next]_vars

\* ------------------------------------------------- the feature functions alone

\* Sample values of the chunks given to rms_power: the int16 extremes the sum
\* of two squares can hold, and the values around RMS_POWER_CLIP.
PowerSamples == {-32767, -10000, 0, 1, 9999, 10000, 32767}
PowerLens == {1, 2}
PowerChunks == UNION {[1..n -> PowerSamples] : n \in PowerLens}

\* Sample values and lengths of the chunks given to normalized_fft.
FftSamples == {-1, 0, 2}
FftArgLens == {1, 2, 3, 4}
FftChunks == UNION {[1..n -> FftSamples] : n \in FftArgLens}
Scales == {2, 3}
Scale(samples, c) == [i \in 1..Len(samples) |-> c * samples[i]]

FeatureArgs ==
    {[fn |-> "rms_power", samples |-> c, pad |-> 0, scale |-> 1] : c \in PowerChunks}
    \cup {[fn |-> "normalized_fft", samples |-> c, pad |-> p, scale |-> k] :
                c \in FftChunks, p \in 0..MaxPad, k \in Scales}

FeatureInit ==
    /\ TrackInit
    /\ arg \in FeatureArgs
    /\ res = NoRes
    /\ viz = NoViz
    /\ game = NoGame

\* rms_power(arg.samples)
Apply_rms_power ==
    /\ arg.fn = "rms_power"
    /\ ~res.done
    /\ res' = [NoRes EXCEPT !.done = TRUE, !.power = rms_power(arg.samples)]
    /\ UNCHANGED <<file, fft, arg, empty, viz, game, data, pow, index, lock, stream,
                   producer, opened, stack, cbData, mcall, newFft, nexts>>

\* normalized_fft(arg.samples, arg.pad), and the same of the samples scaled by arg.scale
Apply_normalized_fft ==
    /\ arg.fn = "normalized_fft"
    /\ ~res.done
    /\ res' = [NoRes EXCEPT !.done = TRUE,
                            !.spectrum = normalized_fft(arg.samples, arg.pad),
                            !.scaled = normalized_fft(Scale(arg.samples, arg.scale), arg.pad)]
    /\ UNCHANGED <<file, fft, arg, empty, viz, game, data, pow, index, lock, stream,
                   producer, opened, stack, cbData, mcall, newFft, nexts>>

FeatureNext ==
    \/ Apply_rms_power
    \/ Apply_normalized_fft

FeatureSpec == FeatureInit /\ [][FeatureNext]_vars

\* ----------------------------------------------------------------- EmptySong

\* EmptySong.playing: `return False`
EmptySong_playing == FALSE
\* EmptySong.power: `return 0`
EmptySong_power == ZeroPower
\* EmptySong.fft: `return self._fft`
EmptySong_fft == empty.fft

EmptyOps == {"EmptySong.play", "EmptySong.stop", "EmptySong.reset", "EmptySong.next"}

EmptySong_body_opens == WavSong_play_body("base", "default")
\* The body of EmptySong.play, stop, reset and next: `pass`
EmptySong_body == <<Step("pass", "base", "none")>>

EmptySong_call(op) ==
    /\ stack' = [stack EXCEPT ![MAIN] = EmptySong_body]
    /\ mcall' = [op |-> op, s |-> "base", pre |-> EmptySong_playing]
    /\ UNCHANGED <<songVars, newFft>>

EmptySong_play ==
    /\ Idle(MAIN)
    /\ EmptySong_call("EmptySong.play")
EmptySong_stop ==
    /\ Idle(MAIN)
    /\ EmptySong_call("EmptySong.stop")
EmptySong_reset ==
    /\ Idle(MAIN)
    /\ EmptySong_call("EmptySong.reset")
EmptySong_next ==
    /\ Idle(MAIN)
    /\ EmptySong_call("EmptySong.next")

\* `pass`
EmptySong_pass ==
    /\ ~Idle(MAIN)
    /\ Top(MAIN).k = "pass"
    /\ Pop(MAIN)
    /\ UNCHANGED <<songVars, newFft>>

\* The SongPair and the EmptySong side by side, as in a game between two levels.
EmptyNext ==
    \/ Next
    \/ EmptySong_play
    \/ EmptySong_stop
    \/ EmptySong_reset
    \/ EmptySong_next
    \/ EmptySong_pass

EmptySpec == Init /\ [][EmptyNext]_vars

\* -------------------------------------------------------------- visualizers

\* Exact rational numbers num/den, den > 0, kept in lowest terms.
RECURSIVE GCD(_, _)
GCD(a, b) == IF b = 0 THEN a ELSE GCD(b, a % b)
Abs(x) == IF x < 0 THEN -x ELSE x
Rat(n, d) ==
    LET g == GCD(Abs(n), d) IN
    IF n = 0 THEN [num |-> 0, den |-> 1] ELSE [num |-> n \div g, den |-> d \div g]
RAdd(a, b) == Rat(a.num * b.den + b.num * a.den, a.den * b.den)
RMul(a, b) == Rat(a.num * b.num, a.den * b.den)
RSub(a, b) == Rat(a.num * b.den - b.num * a.den, a.den * b.den)
RLe(a, b) == a.num * b.den <= b.num * a.den
RInt(n) == [num |-> n, den |-> 1]

SmoothSwapped(new, old, sf) == RAdd(RMul(new, sf), RMul(old, RSub(RInt(1), sf)))
SmoothNoDecay(new, old, sf) == RAdd(new, RMul(old, sf))
\* Exponential smoothing: `new * (1 - self._smooth_factor) + old * self._smooth_factor`
Smooth(new, old, sf) == RAdd(RMul(new, RSub(RInt(1), sf)), RMul(old, sf))

\* `song.fft[:self._bands:] * self._max_line_length`
ScaledSlice(spectrum, bands, mll) ==
    [i \in 1..Min(bands, Len(spectrum)) |-> RMul(spectrum[i], RInt(mll))]

\* An angle is a record [units, wraps] standing for
\*     units * (math.pi / 720) - wraps * 360   radians:
\* `units` counts quarters of a degree, of which a full turn, 2 * math.pi, has
\* 1440, and `wraps` counts the times 360 radians, the modulus of
\* RingVisualizer.draw, has been taken off. 360 radians is 259200 / pi =
\* 82505.92... units, not a whole number of them, so the two parts are kept
\* apart and no angle is rounded.
TurnUnits == 1440
Angle(u) == [units |-> u, wraps |-> 0]
AngleAdd(a, u) == [a EXCEPT !.units = @ + u]
\* `x % 360` for x >= 0 in radians: x - 360 * floor(x / 360). With
\* x = units * pi / 720 - wraps * 360, floor(x / 360) is
\* floor(units * pi / 259200) - wraps; pi is taken as 355/113, which gives the
\* same floor for every units < 990071 (eleven wraps).
Wrap360(a) ==
    LET q == ((a.units * 71) \div 5857920) - a.wraps
    IN  [a EXCEPT !.wraps = @ + q]
\* Angles a and b + d units are the same direction, that is, differ by a whole
\* number of full turns: pi being irrational, the 360-radian parts must agree
\* and the units differ by a multiple of a full turn.
SameDirection(a, b, d) ==
    /\ a.wraps = b.wraps
    /\ (a.units - b.units - d) % TurnUnits = 0
\* The default speed, 0.5 * math.pi / 360.
DefaultSpeed == 1

CeilDiv(a, b) == IF a <= 0 THEN 0 ELSE (a + b - 1) \div b
\* np.arange(start, stop, step) for integers, step # 0.
arange(start, stop, step) ==
    LET n == IF step > 0 THEN CeilDiv(stop - start, step) ELSE CeilDiv(start - stop, -step)
    IN  [i \in 1..n |-> start + (i - 1) * step]

\* What the accessors of the track given to draw return: a spectrum of more
\* than `bands` entries and a power, both in [0, 1].
VizFrames(bands) ==
    { [spectrum |-> [i \in 1..(bands + 1) |-> RInt(0)], power |-> RInt(0)],
      [spectrum |-> [i \in 1..(bands + 1) |-> RInt(i % 2)], power |-> RInt(1)],
      [spectrum |-> [i \in 1..(bands + 1) |-> Rat(1, 2)], power |-> Rat(1, 2)] }
NoFrame == [spectrum |-> <<>>, power |-> RInt(0)]

SmoothFactors == {RInt(0), Rat(1, 2)}
MaxLineLengths == {10}
Speeds == {DefaultSpeed, 360, 41153}
\* radius and max_radius
Radii == {<<1, 3>>, <<2, 2>>}
SurfaceWidths == {20}
RingBands == {b \in 1..MaxBands : TurnUnits % b = 0}

\* RingVisualizer.__init__
RingVisualizer_init(bands, mll, sf, radius, max_radius, speed) ==
    [kind |-> "ring", bands |-> bands, max_line_length |-> mll, smooth_factor |-> sf,
     radius |-> radius, max_radius |-> max_radius, speed |-> speed,
     step |-> TurnUnits \div bands,
     angles |-> [i \in 1..Len(arange(0, TurnUnits, TurnUnits \div bands)) |->
                    Angle(arange(0, TurnUnits, TurnUnits \div bands)[i])],
     fft |-> [i \in 1..bands |-> RInt(0)],
     pow |-> RInt(0),
     draws |-> 0, input |-> NoFrame, drawRadius |-> RInt(radius)]

XRightNoMargin(width, graph_width, d) == arange(width, width - graph_width, -d)
\* `np.arange(0, graph_width, spacing + line_width) + spacing + line_width`
XLeft(graph_width, d) ==
    [i \in 1..Len(arange(0, graph_width, d)) |-> arange(0, graph_width, d)[i] + d]
\* `np.arange(self._width, self._width - graph_width, -spacing - line_width) - spacing - line_width`
XRight(width, graph_width, d) ==
    [i \in 1..Len(arange(width, width - graph_width, -d)) |->
        arange(width, width - graph_width, -d)[i] - d]

\* BarVisualizer.__init__
BarVisualizer_init(width, bands, line_width, mll, sf, spacing) ==
    LET graph_width == bands * line_width + spacing * (bands - 1) IN
    [kind |-> "bar", bands |-> bands, max_line_length |-> mll, smooth_factor |-> sf,
     width |-> width, line_width |-> line_width, spacing |-> spacing,
     x_left |-> XLeft(graph_width, spacing + line_width),
     x_right |-> XRight(width, graph_width, spacing + line_width),
     fft |-> [i \in 1..bands |-> RInt(0)],
     draws |-> 0, input |-> NoFrame,
     left |-> <<>>, right |-> <<>>]

VizInit ==
    /\ TrackInit
    /\ arg = NoArg
    /\ res = NoRes
    /\ game = NoGame
    /\ \/ \E b \in RingBands, m \in MaxLineLengths, sf \in SmoothFactors,
             r \in Radii, v \in Speeds :
                viz = RingVisualizer_init(b, m, sf, r[1], r[2], v)
       \/ \E w \in SurfaceWidths, b \in 1..MaxBands, lw \in 1..MaxLineWidth,
             m \in MaxLineLengths, sf \in SmoothFactors, sp \in 0..MaxSpacing :
                viz = BarVisualizer_init(w, b, lw, m, sf, sp)

\* RingVisualizer.draw(song), song.fft and song.power returning frame f.
RingVisualizer_drawn(f) ==
    LET new_fft == ScaledSlice(f.spectrum, viz.bands, viz.max_line_length)
        p == Smooth(f.power, viz.pow, viz.smooth_factor)
    IN  [viz EXCEPT
            !.angles = [i \in 1..Len(viz.angles) |-> Wrap360(AngleAdd(viz.angles[i], viz.speed))],
            !.fft = [i \in 1..viz.bands |-> Smooth(new_fft[i], viz.fft[i], viz.smooth_factor)],
            !.pow = p,
            !.drawRadius = RAdd(RInt(viz.radius), RMul(RInt(viz.max_radius - viz.radius), p)),
            !.draws = viz.draws + 1,
            !.input = f]

RingVisualizer_frame ==
    /\ viz.kind = "ring"
    /\ viz.draws < MaxDraws
    /\ \E f \in VizFrames(viz.bands) : viz' = RingVisualizer_drawn(f)
    /\ UNCHANGED <<file, fft, arg, res, empty, game, data, pow, index, lock, stream,
                   producer, opened, stack, cbData, mcall, newFft, nexts>>

\* BarVisualizer.draw(song), song.fft returning the spectrum of frame f; `left`
\* and `right` are the heights of the lines drawn at x_left[i] and x_right[i].
BarVisualizer_drawn(f) ==
    LET new_fft == ScaledSlice(f.spectrum, viz.bands, viz.max_line_length)
        s == [i \in 1..viz.bands |-> Smooth(new_fft[i], viz.fft[i], viz.smooth_factor)]
    IN  [viz EXCEPT
            !.fft = s,
            !.left = [i \in 1..viz.bands |-> s[i]],
            !.right = [i \in 1..viz.bands |-> s[i]],
            !.draws = viz.draws + 1,
            !.input = f]

BarVisualizer_frame ==
    /\ viz.kind = "bar"
    /\ viz.draws < MaxDraws
    /\ \E f \in VizFrames(viz.bands) : viz' = BarVisualizer_drawn(f)
    /\ UNCHANGED <<file, fft, arg, res, empty, game, data, pow, index, lock, stream,
                   producer, opened, stack, cbData, mcall, newFft, nexts>>

VizNext ==
    \/ RingVisualizer_frame
    \/ BarVisualizer_frame

VizSpec == VizInit /\ [][VizNext]_vars

\* ----------------------------------------------------------------- SongGame

\* The tracks of a SongGame of two levels: the first level is a SongPair with
\* its solution, the second a WavSong with its solution; self._rewind is the cue.
REWIND == "rewind"
GameLevels ==
    << [song |-> "pair", solution |-> "sol1"],
       [song |-> "hint2", solution |-> "sol2"] >>
GameTracks == {"base", "vocals", "sol1", "hint2", "sol2", REWIND}

\* A wave file of n frames.
Frames(n) == [i \in 1..n |-> 1]
\* The files the tracks of the game are constructed from; the cue ranges over
\* every file, from an empty one to the longest.
GameFiles ==
    { [s \in GameTracks |->
         CASE s = "base" -> Frames(MaxFrames)
           [] s = "vocals" -> Frames(1)
           [] s = "sol1" -> Frames(CHUNK)
           [] s = "hint2" -> Frames(1)
           [] s = "sol2" -> Frames(0)
           [] s = REWIND -> r] : r \in WaveFiles }

\* SongGame.__init__
GameInit ==
    /\ \E f \in GameFiles : Constructed(f)
    /\ empty = EmptySongInit
    /\ arg = NoArg
    /\ res = NoRes
    /\ viz = NoViz
    /\ \E cb \in {"given", "None"} :
        game = [pc |-> "new", callback |-> cb, song |-> "empty", index |-> -1,
                showing_solution |-> FALSE, old_song |-> "none", draw_viz |-> "none"]

\* The WavSong whose device a song plays through.
Primary(song) == IF song = "pair" THEN "base" ELSE song
\* song.playing
Song_playing(song) ==
    IF song = "empty" THEN EmptySong_playing ELSE playing(Primary(song))
\* song.stop() and song.play()
Song_stop_body(song) ==
    CASE song = "empty" -> EmptySong_body
      [] song = "pair" -> SongPair_stop_body
      [] OTHER -> WavSong_stop_body(song)
Song_play_body(song) ==
    CASE song = "empty" -> EmptySong_body
      [] song = "pair" -> SongPair_play_body
      [] OTHER -> WavSong_play_body(song, "default")

SongGame_change_song_no_stop(from, to) ==
    <<Step("set_song", to, "none")>> \o Song_play_body(to)
\* SongGame._change_song(to), self._song being `from`.
SongGame_change_song(from, to) ==
    Song_stop_body(from) \o <<Step("set_song", to, "none")>> \o Song_play_body(to)

\* The drawing behaviour that _change_song picks for a song.
DrawVizFor(song) == IF song = "pair" THEN "pair" ELSE "normal"
\* `self._draw_viz()` can run: it is not None, _draw_song_pair finds the
\* `base` and `vocals` of a SongPair, _draw_normal_song finds the `fft` and
\* `power` that only a WavSong or an EmptySong has.
DrawVizRuns(dv, song) == dv # "none" /\ dv = DrawVizFor(song)

SongGame_set_song_keeps_draw_viz ==
    /\ ~Idle(MAIN)
    /\ Top(MAIN).k = "set_song"
    /\ game' = [game EXCEPT !.song = Top(MAIN).s,
                            !.draw_viz = IF game.draw_viz = "none" THEN "normal" ELSE @]
    /\ Pop(MAIN)
    /\ UNCHANGED <<file, fft, arg, res, empty, viz, data, pow, index, lock, stream,
                   producer, opened, cbData, newFft, nexts>>
\* `self._song = song` and the choice of self._draw_viz
SongGame_set_song ==
    /\ ~Idle(MAIN)
    /\ Top(MAIN).k = "set_song"
    /\ game' = [game EXCEPT !.song = Top(MAIN).s,
                            !.draw_viz = DrawVizFor(Top(MAIN).s)]
    /\ Pop(MAIN)
    /\ UNCHANGED <<file, fft, arg, res, empty, viz, data, pow, index, lock, stream,
                   producer, opened, cbData, newFft, nexts>>

\* `self._callback(name)` runs only if the callback is callable.
Callable(cb) == cb # "None"

\* SongGame._next_level: the index is advanced; an index past the last level
\* raises IndexError, which SongGame.play catches to stop the current song and
\* end the game; calling a callback that is None raises TypeError, which
\* nothing catches; otherwise the level's song replaces the current one.
SongGame_next_level ==
    /\ ~Idle(MAIN)
    /\ Top(MAIN).k = "next_level"
    /\ LET i == game.index + 1 IN
       IF i >= Len(GameLevels)
       THEN /\ game' = [game EXCEPT !.index = i, !.pc = "over"]
            /\ stack' = [stack EXCEPT ![MAIN] = Song_stop_body(game.song)]
            /\ mcall' = mcall
       ELSE IF ~Callable(game.callback)
       THEN /\ game' = [game EXCEPT !.index = i, !.pc = "TypeError"]
            /\ stack' = [stack EXCEPT ![MAIN] = <<>>]
            /\ mcall' = NoCall
       ELSE /\ game' = [game EXCEPT !.index = i]
            /\ stack' = [stack EXCEPT ![MAIN] =
                    SongGame_change_song(game.song, GameLevels[i + 1].song) \o Tail(@)]
            /\ mcall' = mcall
    /\ UNCHANGED <<file, fft, arg, res, empty, viz, data, pow, index, lock, stream,
                   producer, opened, cbData, newFft, nexts>>

\* The game's own handlers start with the main thread idle.
GameCall(op, body) ==
    /\ Idle(MAIN)
    /\ stack' = [stack EXCEPT ![MAIN] = body]
    /\ mcall' = [op |-> op, s |-> "base", pre |-> Song_playing(game.song)]
    /\ UNCHANGED <<file, fft, arg, res, empty, viz, data, pow, index, lock, stream,
                   producer, opened, cbData, newFft, nexts>>

\* SongGame.start: `self._next_level()` then `self._song.play()`
SongGame_start ==
    /\ game.pc = "new"
    /\ game' = [game EXCEPT !.pc = "running"]
    /\ GameCall("SongGame.start",
                <<Step("next_level", "game", "none")>> \o Song_play_body(GameLevels[1].song))

SongGame_space_keeps_flag ==
    /\ game.pc = "running"
    /\ IF game.showing_solution
       THEN /\ game' = [game EXCEPT !.showing_solution = FALSE]
            /\ GameCall("SongGame.space", <<Step("next_level", "game", "none")>>)
       ELSE /\ game' = game
            /\ GameCall("SongGame.space",
                        SongGame_change_song(game.song, GameLevels[game.index + 1].solution))
\* SongGame.loop, a KEYUP of the space key.
SongGame_space ==
    /\ game.pc = "running"
    /\ IF game.showing_solution
       THEN /\ game' = [game EXCEPT !.showing_solution = FALSE]
            /\ GameCall("SongGame.space", <<Step("next_level", "game", "none")>>)
       ELSE /\ game' = [game EXCEPT !.showing_solution = TRUE]
            /\ GameCall("SongGame.space",
                        SongGame_change_song(game.song, GameLevels[game.index + 1].solution))

SongGame_rewind_body_no_restore(old) ==
    SongGame_change_song(old, REWIND)
        \o <<Step("rewind_loop", REWIND, "none")>>
        \o <<Step("break", "game", "none")>>
\* The rewind sequence of SongGame.loop: the cue replaces the current song,
\* the loop runs while the cue is playing, the old song is put back.
SongGame_rewind_body(old) ==
    SongGame_change_song(old, REWIND)
        \o <<Step("rewind_loop", REWIND, "none")>>
        \o SongGame_change_song(REWIND, old)
        \o <<Step("break", "game", "none")>>

\* SongGame.loop, a MOUSEBUTTONUP on the vinyl while no solution is shown.
SongGame_rewind ==
    /\ game.pc = "running"
    /\ ~game.showing_solution
    /\ game' = [game EXCEPT !.old_song = game.song]
    /\ GameCall("SongGame.rewind", SongGame_rewind_body(game.song))

\* `while self._song.playing:` one more frame with the ring drawn on the cue,
\* or the end of the loop.
SongGame_rewind_loop ==
    /\ ~Idle(MAIN)
    /\ Top(MAIN).k = "rewind_loop"
    /\ IF Song_playing(game.song)
       THEN stack' = [stack EXCEPT ![MAIN] = RingVisualizer_draw_body(game.song) \o @]
       ELSE stack' = [stack EXCEPT ![MAIN] = Tail(@)]
    /\ UNCHANGED <<aux, data, pow, index, lock, stream, producer, opened, cbData, mcall, newFft, nexts>>

\* `break`: the handler is over and its local old_song is gone.
SongGame_break ==
    /\ ~Idle(MAIN)
    /\ Top(MAIN).k = "break"
    /\ game' = [game EXCEPT !.old_song = "none"]
    /\ Pop(MAIN)
    /\ UNCHANGED <<file, fft, arg, res, empty, viz, data, pow, index, lock, stream,
                   producer, opened, cbData, newFft, nexts>>

\* SongGame._draw_song_pair and _draw_normal_song
SongGame_draw_body(dv, song) ==
    IF dv = "pair"
    THEN BarVisualizer_draw_body("base") \o RingVisualizer_draw_body("vocals")
    ELSE BarVisualizer_draw_body(song) \o RingVisualizer_draw_body(song)

\* SongGame._draw of a frame in which the song is playing: the reads of
\* self._draw_viz, or the TypeError or AttributeError of a behaviour that is
\* None or does not fit the song.
SongGame_draw ==
    /\ game.pc = "running"
    /\ Song_playing(game.song)
    /\ IF DrawVizRuns(game.draw_viz, game.song)
       THEN /\ game' = game
            /\ GameCall("SongGame._draw", SongGame_draw_body(game.draw_viz, game.song))
       ELSE /\ Idle(MAIN)
            /\ game' = [game EXCEPT !.pc = "DrawError"]
            /\ UNCHANGED <<file, fft, arg, res, empty, viz, data, pow, index, lock, stream,
                           producer, opened, stack, cbData, mcall, newFft, nexts>>

GameNext ==
    \/ SongGame_start
    \/ SongGame_space
    \/ SongGame_rewind
    \/ SongGame_draw
    \/ SongGame_next_level
    \/ SongGame_set_song
    \/ SongGame_rewind_loop
    \/ SongGame_break
    \/ EmptySong_pass
    \/ \E t \in Threads : Lock_acquire(t)
    \/ \E t \in Songs : WavSong_data(t)
    \/ WavSong_fft(MAIN)
    \/ WavSong_power(MAIN)
    \/ \E t \in Threads : WavSong_next(t)
    \/ WavSong_play_check(MAIN)
    \/ WavSong_play_reset(MAIN)
    \/ WavSong_play_open(MAIN)
    \/ WavSong_play_assign(MAIN)
    \/ WavSong_stop(MAIN)
    \/ WavSong_reset_index(MAIN)
    \/ \E s \in Songs : StreamPull(s)
    \/ \E s \in Songs : callback_return(s)
    \/ \E s \in Songs : StreamDrain(s)

GameSpec == GameInit /\ [][GameNext]_vars

\* A step of the main thread other than taking a lock.
GameMainStep ==
    \/ SongGame_next_level
    \/ SongGame_set_song
    \/ SongGame_rewind_loop
    \/ SongGame_break
    \/ EmptySong_pass
    \/ WavSong_fft(MAIN)
    \/ WavSong_power(MAIN)
    \/ WavSong_next(MAIN)
    \/ WavSong_play_check(MAIN)
    \/ WavSong_play_reset(MAIN)
    \/ WavSong_play_open(MAIN)
    \/ WavSong_play_assign(MAIN)
    \/ WavSong_stop(MAIN)
    \/ WavSong_reset_index(MAIN)

\* The tracks that get a device while no solution is shown, when a rewind can
\* be triggered: the primary tracks of the levels, and the cue.
GameDevices == {Primary(GameLevels[i].song) : i \in 1..Len(GameLevels)} \cup {REWIND}

\* Scheduling: a thread that can run, and stays able to, does run (weak
\* fairness only). Nothing is assumed about who gets a contended lock:
\* threading.Lock promises no order, so a thread that finds the lock taken
\* every time it could have run may wait for ever. The device keeps pulling
\* an active stream and plays out the last buffer of a completed one.
GameFairness ==
    /\ WF_vars(GameMainStep)
    /\ WF_vars(Lock_acquire(MAIN))
    /\ \A s \in GameDevices :
        /\ WF_vars(Lock_acquire(s))
        /\ WF_vars(WavSong_data(s) \/ WavSong_next(s) \/ callback_return(s))
        /\ WF_vars(StreamPull(s))
        /\ WF_vars(StreamDrain(s))

GameFairSpec == GameSpec /\ GameFairness

\* ----------------------------------------------------------------- PokeGame

\* The cries of a PokeGame of two Pokemon, each a WavSong.
Pokemon == <<"cry1", "cry2">>
PokeTracks == {Pokemon[i] : i \in 1..Len(Pokemon)}

\* PokeGame.__init__
PokeInit ==
    /\ \E f \in [PokeTracks -> WaveFiles] : Constructed(f)
    /\ empty = EmptySongInit
    /\ arg = NoArg
    /\ res = NoRes
    /\ viz = NoViz
    /\ \E cb \in {"given", "None"} :
        game = [pc |-> "new", callback |-> cb, song |-> "empty", index |-> -1,
                showing_solution |-> FALSE, showing_hint |-> FALSE]

\* PokeGame._change_song(to), self._song being `from`.
PokeGame_change_song(from, to) ==
    Song_stop_body(from) \o <<Step("poke_set_song", to, "none")>> \o Song_play_body(to)

\* `self._song = song`
PokeGame_set_song ==
    /\ ~Idle(MAIN)
    /\ Top(MAIN).k = "poke_set_song"
    /\ game' = [game EXCEPT !.song = Top(MAIN).s]
    /\ Pop(MAIN)
    /\ UNCHANGED <<file, fft, arg, res, empty, viz, data, pow, index, lock, stream,
                   producer, opened, cbData, newFft, nexts>>

\* PokeGame._next_level: the index is advanced; an index past the last Pokemon
\* raises IndexError, which PokeGame.play catches to stop the current cry and
\* end the game; calling a callback that is None raises TypeError, which
\* nothing catches; otherwise the Pokemon's cry replaces the current song.
PokeGame_next_level ==
    /\ ~Idle(MAIN)
    /\ Top(MAIN).k = "poke_next_level"
    /\ LET i == game.index + 1 IN
       IF i >= Len(Pokemon)
       THEN /\ game' = [game EXCEPT !.index = i, !.pc = "over"]
            /\ stack' = [stack EXCEPT ![MAIN] = Song_stop_body(game.song)]
            /\ mcall' = mcall
       ELSE IF ~Callable(game.callback)
       THEN /\ game' = [game EXCEPT !.index = i, !.pc = "TypeError"]
            /\ stack' = [stack EXCEPT ![MAIN] = <<>>]
            /\ mcall' = NoCall
       ELSE /\ game' = [game EXCEPT !.index = i]
            /\ stack' = [stack EXCEPT ![MAIN] =
                    PokeGame_change_song(game.song, Pokemon[i + 1]) \o Tail(@)]
            /\ mcall' = mcall
    /\ UNCHANGED <<file, fft, arg, res, empty, viz, data, pow, index, lock, stream,
                   producer, opened, cbData, newFft, nexts>>

\* PokeGame.start: `self._next_level()` then `self._song.play()`
PokeGame_start ==
    /\ game.pc = "new"
    /\ game' = [game EXCEPT !.pc = "running"]
    /\ GameCall("PokeGame.start",
                <<Step("poke_next_level", "game", "none")>> \o Song_play_body(Pokemon[1]))

\* PokeGame.loop, a KEYUP of the space key: the next level if the solution is
\* shown, else the solution, with the cry played again from its start.
PokeGame_space ==
    /\ game.pc = "running"
    /\ IF game.showing_solution
       THEN /\ game' = [game EXCEPT !.showing_solution = FALSE, !.showing_hint = FALSE]
            /\ GameCall("PokeGame.space", <<Step("poke_next_level", "game", "none")>>)
       ELSE /\ game' = [game EXCEPT !.showing_solution = TRUE, !.showing_hint = FALSE]
            /\ GameCall("PokeGame.space",
                        WavSong_reset_body(game.song) \o WavSong_play_body(game.song, "default"))

PokeGame_hint_any_time ==
    /\ game.pc = "running"
    /\ Idle(MAIN)
    /\ ~game.showing_hint
    /\ game' = [game EXCEPT !.showing_hint = TRUE]
    /\ UNCHANGED <<file, fft, arg, res, empty, viz, data, pow, index, lock, stream,
                   producer, opened, stack, cbData, mcall, newFft, nexts>>
\* PokeGame.loop, a KEYUP of the hint key while no solution is shown.
PokeGame_hint ==
    /\ game.pc = "running"
    /\ Idle(MAIN)
    /\ ~game.showing_solution
    /\ ~game.showing_hint
    /\ game' = [game EXCEPT !.showing_hint = TRUE]
    /\ UNCHANGED <<file, fft, arg, res, empty, viz, data, pow, index, lock, stream,
                   producer, opened, stack, cbData, mcall, newFft, nexts>>

\* PokeGame.loop, a MOUSEBUTTONUP on the vinyl while no solution is shown: the
\* cry is played again from its start.
PokeGame_mouse ==
    /\ game.pc = "running"
    /\ ~game.showing_solution
    /\ game' = game
    /\ GameCall("PokeGame.mouse",
                WavSong_reset_body(game.song) \o WavSong_play_body(game.song, "default"))

\* PokeGame._draw of a frame in which the cry is playing.
PokeGame_draw ==
    /\ game.pc = "running"
    /\ Song_playing(game.song)
    /\ game' = game
    /\ GameCall("PokeGame._draw",
                BarVisualizer_draw_body(game.song) \o RingVisualizer_draw_body(game.song))

PokeNext ==
    \/ PokeGame_start
    \/ PokeGame_space
    \/ PokeGame_hint
    \/ PokeGame_mouse
    \/ PokeGame_draw
    \/ PokeGame_next_level
    \/ PokeGame_set_song
    \/ EmptySong_pass
    \/ \E t \in Threads : Lock_acquire(t)
    \/ \E t \in Songs : WavSong_data(t)
    \/ WavSong_fft(MAIN)
    \/ WavSong_power(MAIN)
    \/ \E t \in Threads : WavSong_next(t)
    \/ WavSong_play_check(MAIN)
    \/ WavSong_play_reset(MAIN)
    \/ WavSong_play_open(MAIN)
    \/ WavSong_play_assign(MAIN)
    \/ WavSong_stop(MAIN)
    \/ WavSong_reset_index(MAIN)
    \/ \E s \in Songs : StreamPull(s)
    \/ \E s \in Songs : callback_return(s)
    \/ \E s \in Songs : StreamDrain(s)

PokeSpec == PokeInit /\ [][PokeNext]_vars

\* ------------------------------------------------------------ step predicates

\* The main thread is about to run step k on WavSong s.
MainAt(k, s) == ~Idle(MAIN) /\ Top(MAIN).k = k /\ Top(MAIN).s = s
\* This step is the main thread running step k on s (for a locked step: its critical section).
MainRuns(k, s) == MainAt(k, s) /\ stack'[MAIN] # stack[MAIN]
\* This step is some thread running the critical section of next() on s.
NextRuns(s) ==
    \E t \in Threads : /\ ~Idle(t) /\ Top(t).k = "next" /\ Top(t).s = s
                       /\ stack'[t] # stack[t]
\* With this step the main thread's call returns.
MainReturns == ~Idle(MAIN) /\ stack'[MAIN] = <<>>
\* This step is the callback of s's stream returning its buffer.
CallbackReturns(s) == ~Idle(s) /\ Top(s).k = "return" /\ stack'[s] # stack[s]

\* ------------------------------------------------------------------- claims

\* C1: in every reachable state the cursor of every WavSong lies in 0 .. L-1,
\* L being its number of stored chunks (sentinel included).
C1_CursorInRange == \A s \in Songs : index[s] \in 0..(L(s) - 1)

\* A three-chunk track whose cursor sits on the sentinel after more advances
\* than it has real chunks, while its device is still open.
C1_Witness ==
    \E s \in Songs : L(s) = 3 /\ index[s] = 2 /\ nexts[s] > 2 /\ stream[s] # "None"

\* C2 (as claimed): the power a draw call reads comes from the same cursor
\* value as the spectrum it read before.
C2_FrameFromOneCursor ==
    [][\A s \in Songs : MainRuns("power", s) => newFft = index[s]]_vars

\* C2 (amended): every single read happens inside the lock at one valid cursor
\* value, and the power of a draw call is read at the cursor value of its
\* spectrum read or at a later one, never at an earlier one.
C2_FrameReadsInOrder ==
    [][\A s \in Songs :
        /\ MainRuns("fft", s) => lock[s] = MAIN /\ index[s] \in 0..(L(s) - 1)
        /\ MainRuns("power", s) =>
              /\ lock[s] = MAIN
              /\ newFft \in 0..(L(s) - 1)
              /\ newFft <= index[s]
              /\ index[s] <= L(s) - 1]_vars

\* A draw call on a playing track is about to read the power of a later chunk
\* than the one whose spectrum it holds.
C2_Witness ==
    \E s \in Songs :
        /\ Holding(MAIN, "power") /\ Top(MAIN).s = s
        /\ playing(s)
        /\ newFft >= 0 /\ newFft < index[s]

\* C3: next() never lowers the cursor, raises it by exactly one below L-1 and
\* leaves it at L-1; after n calls from cursor 0 the cursor is min(n, L-1).
C3_NextClamps ==
    /\ [][\A s \in Songs : NextRuns(s) =>
            /\ index'[s] >= index[s]
            /\ index[s] < L(s) - 1 => index'[s] = index[s] + 1
            /\ index[s] >= L(s) - 1 => index'[s] = L(s) - 1]_vars
    /\ [](\A s \in Songs : index[s] = Min(nexts[s], L(s) - 1))

\* next() has been called at least L times from cursor 0 on a track with real chunks.
C3_Witness ==
    \E s \in Songs : L(s) >= 2 /\ nexts[s] >= L(s) /\ index[s] = L(s) - 1

\* C4: play() on a playing WavSong returns at once: cursor, stream and
\* registered producer keep their values, nothing is reset or opened.
C4_PlayWhilePlayingNoop ==
    [][\A s \in Songs : MainRuns("play_check", s) /\ playing(s) =>
          /\ MainReturns
          /\ index'[s] = index[s]
          /\ stream'[s] = stream[s]
          /\ producer'[s] = producer[s]
          /\ nexts'[s] = nexts[s]]_vars

\* WavSong.play() is called on a track that plays with the pair producer and
\* whose cursor has left 0.
C4_Witness ==
    \E s \in Songs :
        /\ MainAt("play_check", s) /\ mcall.op = "WavSong.play"
        /\ playing(s) /\ producer[s] = "pair" /\ index[s] > 0

\* C5 (as claimed): a play() call made while playing() is false goes on to
\* reset the cursor to 0 and to open the device, which starts pulling from
\* chunk 0, and returns with the stream stored.
C5_PlayStartsWhenNotPlaying ==
    [][\A s \in Songs :
        (mcall.op \in {"WavSong.play", "SongPair.play"} /\ mcall.s = s /\ ~mcall.pre) =>
            /\ MainRuns("play_check", s) =>
                  stack'[MAIN] # <<>> /\ Head(stack'[MAIN]).k = "play_reset"
            /\ MainRuns("play_open", s) => index[s] = 0 /\ Device(s)' = "active"
            /\ MainReturns => stream'[s] # "None"]_vars

\* C6: reset() leaves the cursor at 0 and the track stopped with no device open;
\* SongPair.reset() returns with both lanes' cursors at 0 and nothing playing.
C6_ResetStops ==
    [][/\ \A s \in Songs : MainRuns("reset_index", s) =>
              index'[s] = 0 /\ stream'[s] = "None" /\ ~playing(s)'
       /\ (mcall.op \in {"WavSong.reset", "SongPair.reset"} /\ MainReturns) =>
              /\ index'[mcall.s] = 0
              /\ stream'[mcall.s] = "None"
       /\ (mcall.op = "SongPair.reset" /\ MainReturns) =>
              /\ \A s \in Songs : index'[s] = 0 /\ stream'[s] = "None"
              /\ ~SongPair_playing']_vars

\* SongPair.reset(), called while the pair was playing, is about to run its
\* last step with the primary cursor still advanced.
C6_Witness ==
    /\ mcall.op = "SongPair.reset" /\ mcall.pre
    /\ Len(stack[MAIN]) = 1 /\ Holding(MAIN, "reset_index")
    /\ index["base"] > 0

\* C7: stop() always ends with no stream set and playing() false, and on a
\* track with no stream it changes nothing.
C7_StopIdempotent ==
    [][\A s \in Songs : MainRuns("stop", s) =>
          /\ stream'[s] = "None"
          /\ ~playing(s)'
          /\ stream[s] = "None" => UNCHANGED songVars]_vars

\* The second stop() of the primary lane within one SongPair.reset() of a
\* playing pair: the stream is already closed.
C7_Witness ==
    /\ mcall.op = "SongPair.reset" /\ mcall.pre
    /\ MainAt("stop", "base") /\ Len(stack[MAIN]) = 2
    /\ stream["base"] = "None"

\* C8: while a track has no stream (stop() has returned, no later play() has
\* opened the device again), no callback of its device is running or holds a
\* lock, and its cursor is not moved by its device's callback thread.
C8_StopIsSynchronous ==
    /\ [](\A s \in Songs : Device(s) = "None" =>
            Idle(s) /\ \A x \in Songs : lock[x] # s)
    /\ [][\A s \in Songs : Device(s) = "None" /\ index'[s] # index[s] =>
            stack'[s] = stack[s] /\ Idle(s)]_vars

\* Within SongPair.stop() of a playing pair, stop() of the primary lane has
\* returned after callbacks had advanced both cursors.
C8_Witness ==
    /\ mcall.op = "SongPair.stop" /\ mcall.pre
    /\ MainAt("stop", "vocals")
    /\ stream["base"] = "None"
    /\ index["base"] > 0 /\ index["vocals"] > 0

\* C9 (as claimed): playing() turns false only by stop() (reset() stops through stop()).
C9_NeverSelfStops ==
    [][\A s \in Songs : playing(s) /\ ~playing(s)' => MainRuns("stop", s)]_vars

\* C9 (amended): playing() stays true across every pull that serves a full
\* chunk; the stream completes only when the callback returns a buffer shorter
\* than CHUNK frames, and only a completed stream stops without stop().
C9_SelfStopsOnlyOnShortBuffer ==
    [][\A s \in Songs :
        /\ playing(s) /\ ~playing(s)' =>
              MainRuns("stop", s) \/ stream[s] = "complete"
        /\ Device(s) # "complete" /\ Device(s)' = "complete" =>
              CallbackReturns(s) /\ Len(cbData[s]) < CHUNK
        /\ CallbackReturns(s) /\ Len(cbData[s]) >= CHUNK =>
              /\ Device(s)' = Device(s)
              /\ playing(s) => playing(s)']_vars

\* A track of one full and one shorter chunk stopped by itself after serving
\* the shorter chunk: its stream is still set, playing() is false.
C9_Witness ==
    \E s \in Songs :
        /\ L(s) = 3 /\ Len(data[s][2]) < CHUNK
        /\ stream[s] = "inactive" /\ index[s] = 2 /\ nexts[s] = 2

\* C10: once a track with N real chunks has been advanced N or more times from
\* cursor 0, its cursor is N and the power read is 0.
C10_SentinelIsSilent ==
    \A s \in Songs : nexts[s] >= L(s) - 1 =>
        index[s] = L(s) - 1 /\ IsZero(PowerAt(s))

\* A draw call reads the power of a track with real chunks that has been
\* advanced more often than it has real chunks.
C10_Witness ==
    \E s \in Songs :
        /\ Holding(MAIN, "power") /\ Top(MAIN).s = s
        /\ L(s) >= 2 /\ nexts[s] > L(s) - 1
        /\ ~IsZero(pow[s][1])

\* Number of non-empty chunk reads a file of these frames gives: ceil(len / CHUNK).
NumReads(frames) == (Len(frames) + CHUNK - 1) \div CHUNK
Max(a, b) == IF a > b THEN a ELSE b

C11_Shape ==
    \A s \in Songs :
        LET N == NumReads(file[s]) IN
        /\ Len(data[s]) = N + 1
        /\ Len(pow[s]) = N + 1
        /\ Len(fft[s]) = N + 1
        /\ \A i \in 1..N :
            /\ data[s][i] # <<>>
            /\ data[s][i] = SubSeq(file[s], (i - 1) * CHUNK + 1, Min(i * CHUNK, Len(file[s])))
            /\ pow[s][i] = rms_power(data[s][i])
            /\ fft[s][i] = normalized_fft(data[s][i], CHUNK \div 2)

\* C11: a WavSong constructed from a file that gives N non-empty chunk reads
\* stores N + 1 chunks, N + 1 powers and N + 1 spectra; for i < N, chunk i is the
\* i-th read of the file and power i and spectrum i are computed from chunk i;
\* no step of any thread changes the three lists afterwards.
C11_ListsBuiltOnce ==
    /\ []C11_Shape
    /\ [][UNCHANGED <<data, pow, fft>>]_vars

\* A track of two real chunks, the last one partial, has been played to its
\* sentinel and its device is still set.
C11_Witness ==
    \E s \in Songs :
        /\ Len(file[s]) > CHUNK /\ Len(file[s]) % CHUNK # 0
        /\ Len(data[s]) = 3
        /\ index[s] = 2
        /\ stream[s] # "None"

\* C12 (as claimed): the last stored chunk of every WavSong is an all-zero
\* buffer of CHUNK samples, as long as a full real chunk.
C12_SentinelIsFullSilence ==
    \A s \in Songs :
        /\ Len(data[s][L(s)]) = CHUNK
        /\ \A i \in 1..Len(data[s][L(s)]) : data[s][L(s)][i] = 0

\* C12 (amended): the last stored chunk of every WavSong is the empty buffer,
\* shorter than every real chunk; a stream that returns it to the device
\* completes.
C12_SentinelIsEmpty ==
    /\ [](\A s \in Songs :
            /\ data[s][L(s)] = <<>>
            /\ Len(data[s][L(s)]) < CHUNK
            /\ \A i \in 1..(L(s) - 1) : Len(data[s][i]) > Len(data[s][L(s)]))
    /\ [][\A s \in Songs :
            (CallbackReturns(s) /\ cbData[s] = data[s][L(s)] /\ Device(s) = "active")
            => Device(s)' = "complete"]_vars

\* The callback of a track whose last real chunk is full is about to return the
\* sentinel to an active stream.
C12_Witness ==
    \E s \in Songs :
        /\ L(s) >= 2 /\ Len(data[s][L(s) - 1]) = CHUNK
        /\ ~Idle(s) /\ Top(s).k = "return"
        /\ index[s] = L(s) - 1 /\ nexts[s] > L(s) - 1
        /\ cbData[s] = <<>>
        /\ stream[s] = "active"

\* The number of bins np.abs(rfft(samples)) has.
Bins(samples) == Len(samples) \div 2 + 1

\* C13 (as claimed): every stored spectrum has CHUNK / 2 entries, and
\* normalized_fft(samples, pad) returns pad entries when the transform has
\* fewer than pad bins.
C13_SpectraHaveHalfChunkLength ==
    /\ \A s \in Songs : \A i \in 1..Len(fft[s]) : Len(fft[s][i]) = CHUNK \div 2
    /\ (res.done /\ arg.fn = "normalized_fft" /\ Bins(arg.samples) < arg.pad)
            => Len(res.spectrum) = arg.pad

\* C13 (amended): CHUNK / 2 is the least length of a stored spectrum, not its
\* length: the spectrum of a real chunk of n samples has the larger of
\* n / 2 + 1 and CHUNK / 2 entries (CHUNK / 2 + 1 for a full chunk), the
\* sentinel spectrum has CHUNK entries; normalized_fft(samples, pad) returns
\* pad entries when the transform has fewer than pad bins and all the bins
\* otherwise.
C13_SpectraHaveAtLeastHalfChunk ==
    /\ \A s \in Songs :
        /\ \A i \in 1..(Len(fft[s]) - 1) :
              Len(fft[s][i]) = Max(Len(data[s][i]) \div 2 + 1, CHUNK \div 2)
        /\ \A i \in 1..(Len(fft[s]) - 1) :
              Len(data[s][i]) = CHUNK => Len(fft[s][i]) = CHUNK \div 2 + 1
        /\ Len(fft[s][Len(fft[s])]) = CHUNK
    /\ (res.done /\ arg.fn = "normalized_fft") =>
        /\ Bins(arg.samples) < arg.pad => Len(res.spectrum) = arg.pad
        /\ Bins(arg.samples) >= arg.pad => Len(res.spectrum) = Bins(arg.samples)
        /\ \A k \in (Bins(arg.samples) + 1)..Len(res.spectrum) : res.spectrum[k].num = 0

\* normalized_fft has padded a transform of fewer bins than pad, next to tracks
\* that store a full chunk's spectrum.
C13_Witness ==
    /\ res.done /\ arg.fn = "normalized_fft"
    /\ Bins(arg.samples) < arg.pad
    /\ Len(res.spectrum) = arg.pad
    /\ \E s \in Songs : Len(fft[s]) >= 2 /\ Len(data[s][1]) = CHUNK

RECURSIVE SquaresTo(_, _)
\* samples[1]^2 + ... + samples[i]^2
SquaresTo(samples, i) ==
    IF i = 0 THEN 0 ELSE samples[i] * samples[i] + SquaresTo(samples, i - 1)

\* C14: for every non-empty chunk of int16 samples rms_power is in [0, 1]; its
\* square is min(mean square, 10000^2) / 10000^2; it is 0 for an all-zero
\* chunk and exactly 1 when the RMS is 10000 or more.
C14_PowerIsClippedRms ==
    (res.done /\ arg.fn = "rms_power") =>
        LET c == arg.samples
            n == Len(c)
            S == SquaresTo(c, n)
            p == res.power
        IN  /\ p.den > 0 /\ 0 <= p.num /\ p.num <= p.den
            /\ p.den = 10000 * 10000 * n
            /\ S < 10000 * 10000 * n => p.num = S
            /\ S >= 10000 * 10000 * n => p.num = p.den
            /\ (\A i \in 1..n : c[i] = 0) => p.num = 0

\* rms_power has been applied to a chunk whose RMS exceeds the clip although
\* one of its samples is below it.
C14_Witness ==
    /\ res.done /\ arg.fn = "rms_power"
    /\ Len(arg.samples) = 2
    /\ arg.samples[1] = 32767 /\ arg.samples[2] = 1
    /\ res.power.num = res.power.den

\* The entries of two vectors are equal as fractions.
SameVector(u, v) ==
    /\ Len(u) = Len(v)
    /\ \A k \in 1..Len(u) : u[k].num * v[k].den = v[k].num * u[k].den

\* C15: normalized_fft returns a vector of Euclidean norm 1 for a chunk that
\* is not all zero and the all-zero vector, without a division by zero, for a
\* silent chunk; scaling the samples by a positive factor leaves it unchanged.
C15_SpectrumIsNormalized ==
    (res.done /\ arg.fn = "normalized_fft") =>
        LET c == arg.samples
            v == res.spectrum
            silent == \A i \in 1..Len(c) : c[i] = 0
        IN  /\ \A k \in 1..Len(v) : v[k].den > 0 /\ v[k].num >= 0
            /\ ~silent => SeqSum([k \in 1..Len(v) |-> v[k].num]) = v[1].den
            /\ ~silent => \A k \in 1..Len(v) : v[k].den = v[1].den
            /\ silent => \A k \in 1..Len(v) : v[k].num = 0
            /\ SameVector(v, res.scaled)

\* normalized_fft has been applied to a silent chunk and to a chunk with
\* energy in more than one bin, scaled by 3.
C15_Witness ==
    /\ res.done /\ arg.fn = "normalized_fft"
    /\ \/ \A i \in 1..Len(arg.samples) : arg.samples[i] = 0
       \/ /\ arg.scale = 3
          /\ Len(res.spectrum) >= 2
          /\ res.spectrum[1].num > 0 /\ res.spectrum[2].num > 0
          /\ res.spectrum[1].den > 1

\* C16 (as claimed, for k = 0 pulls): SongPair.play(), called while playing()
\* is false, opens the device with both lanes' cursors at 0, so that k pulls
\* later they are at min(k, Lp - 1) and min(k, Ls - 1).
C16_PlayStartsBothLanesAtZero ==
    [][(mcall.op = "SongPair.play" /\ ~mcall.pre /\ MainRuns("play_open", "base"))
        => /\ index["base"] = 0
           /\ index["vocals"] = 0
           /\ Device("base")' = "active"]_vars

\* The (kind, lane) pairs of the steps a thread still has to run.
Pending(t) == [i \in 1..Len(stack[t]) |-> <<stack[t][i].k, stack[t][i].s>>]

\* C17 (as claimed): the render thread never reads a lane while the pair's
\* callback has advanced the primary and not yet the secondary.
C17_LanesAdvanceAtomically ==
    ~(/\ producer["base"] = "pair"
      /\ ~Idle("base") /\ Top("base").k = "next" /\ Top("base").s = "vocals"
      /\ \E s \in Songs : Holding(MAIN, "fft") /\ Top(MAIN).s = s)

\* C17 (amended): the two advances of a pull are made by the same callback
\* invocation, primary first, each inside the critical section of its own
\* lane's lock and never both locks at once: whenever the primary's advance is
\* still to come so is the secondary's, and the callback returns only after
\* both; between the two the render thread can read either lane.
C17_LanesAdvanceInOneCallback ==
    /\ [](producer["base"] = "pair" =>
            Pending("base") \in
                { <<>>,
                  <<<<"return", "base">>>>,
                  <<<<"next", "vocals">>, <<"return", "base">>>>,
                  <<<<"next", "base">>, <<"next", "vocals">>, <<"return", "base">>>>,
                  <<<<"data", "base">>, <<"next", "base">>, <<"next", "vocals">>,
                    <<"return", "base">>>> })
    /\ [](~(lock["base"] = "base" /\ lock["vocals"] = "base"))
    /\ [][(producer["base"] = "pair" /\ NextRuns("vocals") /\ stack'["base"] # stack["base"])
            => /\ lock["vocals"] = "base" /\ lock["base"] # "base"
               /\ index'["base"] = index["base"]]_vars

\* The render thread reads the secondary's spectrum after the callback advanced
\* the primary and before it advances the secondary.
C17_Witness ==
    /\ producer["base"] = "pair"
    /\ ~Idle("base") /\ Top("base").k = "next" /\ Top("base").s = "vocals"
    /\ Holding(MAIN, "fft") /\ Top(MAIN).s = "vocals"
    /\ index["base"] = index["vocals"] + 1

\* C18: SongPair.stop() returns with playing() false and the secondary cursor
\* at 0; once the device is closed the primary cursor keeps its value to the
\* end of the call; a play() made in the state stop() leaves (no stream set,
\* secondary cursor 0) starts both lanes from cursor 0.
C18_StopRewindsSecondary ==
    [][/\ (mcall.op = "SongPair.stop" /\ MainReturns) =>
              /\ ~SongPair_playing'
              /\ stream'["base"] = "None"
              /\ index'["vocals"] = 0
              /\ index'["base"] = index["base"]
       /\ (mcall.op = "SongPair.stop" /\ stream["base"] = "None") =>
              index'["base"] = index["base"]
       /\ (mcall.op = "SongPair.play" /\ MainRuns("play_open", "base")
                /\ index["vocals"] = 0) =>
              /\ index["base"] = 0 /\ index'["base"] = 0 /\ index'["vocals"] = 0
              /\ Device("base")' = "active"
              /\ producer'["base"] = "pair"]_vars

\* SongPair.stop() has closed the device with both lanes advanced and is about
\* to rewind the secondary.
C18_Witness ==
    /\ mcall.op = "SongPair.stop" /\ mcall.pre
    /\ MainAt("reset_index", "vocals")
    /\ stream["base"] = "None"
    /\ index["base"] > 0 /\ index["vocals"] > 0

\* C19: the secondary lane never has a stream, a producer or a callback of its
\* own, so at most the primary's device is open, and SongPair.playing is the
\* primary's playing.
C19_SecondaryNeverOpens ==
    /\ stream["vocals"] = "None"
    /\ Device("vocals") = "None"
    /\ producer["vocals"] = "none"
    /\ Idle("vocals")
    /\ SongPair_playing = playing("base")
    /\ \A s \in Songs : Device(s) # "None" => s = "base"

\* The pair is playing through the primary's device and the secondary lane has
\* been advanced by the primary's callback.
C19_Witness ==
    /\ stream["base"] = "active" /\ producer["base"] = "pair"
    /\ index["vocals"] > 0
    /\ stream["vocals"] = "None"

\* C20: whatever EmptySong operations are called, in any order and next to a
\* playing SongPair, EmptySong.playing is false, its power is 0, its fft is
\* the all-zero vector of CHUNK / 2 entries, and no step of an EmptySong
\* operation changes the EmptySong, a WavSong or a device.
C20_EmptySongIsInert ==
    /\ [](/\ ~EmptySong_playing
          /\ IsZero(EmptySong_power)
          /\ Len(EmptySong_fft) = CHUNK \div 2
          /\ \A k \in 1..Len(EmptySong_fft) : EmptySong_fft[k].num = 0
          /\ Len(empty.data) = CHUNK
          /\ \A k \in 1..Len(empty.data) : empty.data[k] = 0)
    /\ [][((mcall.op \in EmptyOps \/ mcall'.op \in EmptyOps)
                /\ stack'[MAIN] # stack[MAIN])
            => /\ UNCHANGED <<empty, songVars>>
               /\ (mcall.op \in EmptyOps => MainReturns)]_vars

\* EmptySong.play() is about to return while the SongPair goes on playing.
C20_Witness ==
    /\ mcall.op = "EmptySong.play"
    /\ MainAt("pass", "base")
    /\ stream["base"] = "active"
    /\ index["base"] > 0

\* C21: no step of a RingVisualizer.draw or BarVisualizer.draw call changes
\* the track it is given (cursor, stream, producer, chunks, powers, spectra);
\* a ring draw reads fft once and then power once, a bar draw reads fft once.
C21_DrawOnlyReads ==
    /\ [][((mcall.op \in {"RingVisualizer.draw", "BarVisualizer.draw"}
                \/ mcall'.op \in {"RingVisualizer.draw", "BarVisualizer.draw"})
            /\ stack'[MAIN] # stack[MAIN])
           => UNCHANGED <<index, stream, producer, opened, data, pow, fft, nexts>>]_vars
    /\ [](mcall.op = "RingVisualizer.draw" =>
            Pending(MAIN) \in { <<<<"fft", mcall.s>>, <<"power", mcall.s>>>>,
                                <<<<"power", mcall.s>>>> })
    /\ [](mcall.op = "BarVisualizer.draw" => Pending(MAIN) = <<<<"fft", mcall.s>>>>)

\* A ring draw on a playing track has read the spectrum and is about to read
\* the power, the callback having advanced the cursor meanwhile.
C21_Witness ==
    /\ mcall.op = "RingVisualizer.draw"
    /\ Holding(MAIN, "power")
    /\ playing(mcall.s)
    /\ newFft >= 0 /\ index[mcall.s] > newFft

\* C26: the cursor of a WavSong changes only in a step of the thread that
\* holds its lock; every data, power, fft, next, play-reset and reset step runs
\* with the lock held and leaves it free; a lock is held only by a thread that
\* is inside such a critical section, whose next step releases it, so an idle
\* thread holds none; and the steps that open, start, stop or close a device
\* run while the calling thread holds no lock.
C26_CursorUnderLock ==
    /\ [][\A s \in Songs : index'[s] # index[s] =>
            \E t \in Threads : lock[s] = t /\ stack'[t] # stack[t] /\ lock'[s] = "free"]_vars
    /\ [][\A t \in Threads :
            (~Idle(t) /\ Top(t).k \in {"data", "power", "fft", "next", "play_reset", "reset_index"}
                /\ stack'[t] # stack[t])
            => lock[Top(t).s] = t /\ lock'[Top(t).s] = "free"]_vars
    /\ [](\A s \in Songs : lock[s] # "free" =>
            /\ lock[s] \in Threads
            /\ ~Idle(lock[s])
            /\ Top(lock[s]).s = s
            /\ Top(lock[s]).k \in {"data", "power", "fft", "next", "play_reset", "reset_index"})
    /\ [][\A s \in Songs : (Device(s)' = "None") # (Device(s) = "None") =>
            /\ stack'[MAIN] # stack[MAIN]
            /\ \A x \in Songs : lock[x] # MAIN /\ lock'[x] # MAIN]_vars

\* The callback of a playing track waits for the lock while the main thread
\* is inside the critical section of a read on the same track.
C26_Witness ==
    \E s \in Songs :
        /\ lock[s] = MAIN
        /\ ~Idle(s) /\ Top(s).k = "next" /\ Top(s).s = s
        /\ Top(MAIN).k = "fft"

\* C22: with smooth_factor = 0, after every draw the bar i of a BarVisualizer
\* has height spectrum[i] * max_line_length on the left and on the right, for
\* every i < bands, whatever was drawn before.
C22_NoInertiaAtZero ==
    (viz.kind = "bar" /\ viz.smooth_factor.num = 0 /\ viz.draws > 0) =>
        /\ Len(viz.left) = viz.bands /\ Len(viz.right) = viz.bands
        /\ \A i \in 1..viz.bands :
            /\ viz.left[i].num * viz.input.spectrum[i].den
                 = viz.input.spectrum[i].num * viz.max_line_length * viz.left[i].den
            /\ viz.right[i] = viz.left[i]

\* A BarVisualizer without smoothing has drawn the spectrum 1,0,1,0 after a
\* different one.
C22_Witness ==
    /\ viz.kind = "bar" /\ viz.smooth_factor.num = 0
    /\ viz.bands = 4 /\ viz.draws >= 2
    /\ viz.left = <<RInt(10), RInt(0), RInt(10), RInt(0)>>
    /\ viz.right = <<RInt(10), RInt(0), RInt(10), RInt(0)>>

\* C27 (as claimed): after any number of draws band i of a RingVisualizer is
\* at band 0's angle plus i steps, modulo a full turn, and every draw moves
\* band 0 by the speed, modulo a full turn.
C27_BandsEquallySpaced ==
    /\ [](viz.kind = "ring" =>
            \A i \in 1..Len(viz.angles) :
                SameDirection(viz.angles[i], viz.angles[1], (i - 1) * viz.step))
    /\ [][viz.kind = "ring" /\ viz'.draws = viz.draws + 1 =>
            SameDirection(viz'.angles[1], viz.angles[1], viz.speed)]_vars

\* C28: with every power read in [0, 1] and smooth_factor in [0, 1), the
\* smoothed power of a RingVisualizer stays in [0, 1] and the radius it draws
\* with lies between radius and max_radius.
C28_PowerAndRadiusBounded ==
    viz.kind = "ring" =>
        /\ viz.pow.den > 0
        /\ RLe(RInt(0), viz.pow) /\ RLe(viz.pow, RInt(1))
        /\ RLe(RInt(viz.radius), viz.drawRadius)
        /\ RLe(viz.drawRadius, RInt(viz.max_radius))

\* A smoothing RingVisualizer has drawn full power after lower powers: its
\* smoothed power is strictly between 0 and 1.
C28_Witness ==
    /\ viz.kind = "ring" /\ viz.smooth_factor.num > 0
    /\ viz.draws >= 2
    /\ viz.input.power = RInt(1)
    /\ viz.pow.num > 0 /\ viz.pow.num < viz.pow.den
    /\ viz.radius < viz.max_radius

\* C29: a BarVisualizer has exactly `bands` x-positions on each side,
\* consecutive ones spacing + line_width apart, and x_right[i] is the surface
\* width minus x_left[i].
C29_BarPositionsMirror ==
    viz.kind = "bar" =>
        /\ Len(viz.x_left) = viz.bands
        /\ Len(viz.x_right) = viz.bands
        /\ \A i \in 1..(viz.bands - 1) :
            /\ viz.x_left[i + 1] - viz.x_left[i] = viz.spacing + viz.line_width
            /\ viz.x_right[i] - viz.x_right[i + 1] = viz.spacing + viz.line_width
        /\ \A i \in 1..viz.bands : viz.x_right[i] = viz.width - viz.x_left[i]

\* A BarVisualizer of several bands with spacing has drawn a frame.
C29_Witness ==
    /\ viz.kind = "bar"
    /\ viz.bands >= 3 /\ viz.spacing >= 1 /\ viz.line_width >= 2
    /\ viz.draws >= 1

\* The primary track s has been pulled up to a buffer shorter than CHUNK since
\* its cursor was last set to 0: its data has run out.
RanOut(s) == \E j \in 1..nexts[s] : Len(data[s][Min(j, L(s))]) < CHUNK

\* C23 (as claimed): when a rewind sequence completes the current song is the
\* one that was current at the trigger, it is playing, and the cue has no
\* device.
C23_RewindEndsPlaying ==
    [][MainRuns("break", "game") =>
          /\ game.song = game.old_song
          /\ Song_playing(game.song)
          /\ Device(REWIND) = "None"]_vars

\* C23 (amended): in the rewind sequence of SongGame the song put back is the
\* one that was current at the trigger, with its chunks as constructed; it was
\* stopped, so the restoring play() opens and starts its device and returns
\* with the stream stored, the cue having no device; when the sequence ends it
\* is still the current song, with its device, and it is playing unless its
\* data has already run out.
C23_RewindRestoresSong ==
    /\ [][UNCHANGED <<file, data, pow, fft>>]_vars
    /\ [][/\ (mcall.op = "SongGame.rewind"
                /\ MainRuns("play_check", Primary(game.old_song))) =>
              /\ game.song = game.old_song
              /\ stream[Primary(game.old_song)] = "None"
              /\ stream[REWIND] = "None"
          /\ (mcall.op = "SongGame.rewind"
                /\ MainRuns("play_open", Primary(game.old_song))) =>
              /\ game.song = game.old_song
              /\ Device(Primary(game.song))' = "active"
              /\ Device(REWIND)' = "None"
          /\ (mcall.op = "SongGame.rewind"
                /\ MainRuns("play_assign", Primary(game.old_song))) =>
              /\ game.song = game.old_song
              /\ stream'[Primary(game.song)] # "None"
              /\ Device(REWIND)' = "None"
          /\ MainRuns("break", "game") =>
              /\ game.song = game.old_song
              /\ game.song # REWIND
              /\ stream[Primary(game.song)] # "None"
              /\ stream[REWIND] = "None"
              /\ Song_playing(game.song) \/ (stream[Primary(game.song)] = "inactive"
                                              /\ RanOut(Primary(game.song)))]_vars

\* A rewind of the SongPair ends: the pair is current again and playing.
C23_Witness ==
    /\ mcall.op = "SongGame.rewind"
    /\ MainAt("break", "game")
    /\ game.old_song = "pair" /\ game.song = "pair"
    /\ SongPair_playing
    /\ index[REWIND] > 0

\* The cue is the current song of a rewind sequence and its stream has come to
\* its end: the callback has returned a buffer shorter than CHUNK.
CueFinished ==
    /\ mcall.op = "SongGame.rewind"
    /\ game.song = REWIND
    /\ Device(REWIND) \in {"complete", "inactive"}

C25_CallbackOptional == game.pc # "none" /\ game.callback = "None" => game.pc # "TypeError"

\* C30: in every state of a SongGame at most one track has a device, the
\* primary track of the current song, and a device is opened only while no
\* track has one.
C30_OneDeviceOpen ==
    /\ [](/\ Cardinality({s \in Songs : Device(s) # "None"}) <= 1
          /\ \A s \in Songs : Device(s) # "None" => s = Primary(game.song))
    /\ [][\A s \in Songs : (Device(s) = "None" /\ Device(s)' # "None") =>
            \A x \in Songs : Device(x) = "None"]_vars

\* start() calls play() a second time on the first level's song, whose device
\* is open.
C30_Witness ==
    /\ mcall.op = "SongGame.start"
    /\ MainAt("play_check", "base")
    /\ game.song = "pair"
    /\ stream["base"] # "None"

\* The level the index points at exists.
LevelExists(g) == g.index >= 0 /\ g.index < Len(GameLevels)
\* The current song is the solution track, or the level's song, of the level
\* the index points at.
OnSolution(g) == LevelExists(g) /\ g.song = GameLevels[g.index + 1].solution
OnLevelSong(g) == LevelExists(g) /\ g.song = GameLevels[g.index + 1].song
\* This step is a Space press being taken up.
SpacePressed == mcall.op # "SongGame.space" /\ mcall'.op = "SongGame.space"
\* This step ends the handling of a Space press.
SpaceHandled == mcall.op = "SongGame.space" /\ MainReturns

\* C31 (as claimed): Space with the solution hidden sets the flag, keeps the
\* index and makes solutions[index] the current song, its device opened by
\* play(); Space with the solution shown clears the flag, adds one to the
\* index and makes songs[index] the current song, its device opened by play(); the index never decreases; whenever no handler
\* runs, the current song is the solution track exactly when the flag is set.
C31_SpaceTogglesSolution ==
    /\ [][/\ SpacePressed =>
               /\ game'.showing_solution = ~game.showing_solution
               /\ game'.index = game.index
          /\ game'.index >= game.index
          /\ (mcall.op = "SongGame.space" /\ game'.index # game.index) =>
               /\ ~game.showing_solution
               /\ game'.index = game.index + 1
          /\ (mcall.op = "SongGame.space" /\ game.showing_solution) =>
               game'.index = game.index
          /\ SpaceHandled =>
               /\ MainRuns("play_assign", Primary(game.song))
               /\ stream'[Primary(game.song)] # "None"
               /\ IF game'.showing_solution THEN OnSolution(game') ELSE OnLevelSong(game')]_vars
    /\ []((Idle(MAIN) /\ game.pc \in {"running", "over"}) =>
            (game.showing_solution <=> OnSolution(game)))

\* C31 (amended): as above while a next level exists; the Space press made
\* with the last level's solution shown clears the flag, moves the index past
\* the last level and ends the game with the solution track still current,
\* stopped; while the game runs and no handler runs, the current song is the
\* solution track exactly when the flag is set.
C31_SpaceTogglesUntilLastLevel ==
    /\ [][/\ SpacePressed =>
               /\ game'.showing_solution = ~game.showing_solution
               /\ game'.index = game.index
          /\ game'.index >= game.index
          /\ (mcall.op = "SongGame.space" /\ game'.index # game.index) =>
               /\ ~game.showing_solution
               /\ game'.index = game.index + 1
          /\ (mcall.op = "SongGame.space" /\ game.showing_solution) =>
               game'.index = game.index
          /\ (SpaceHandled /\ game'.pc = "running") =>
               /\ MainRuns("play_assign", Primary(game.song))
               /\ stream'[Primary(game.song)] # "None"
               /\ IF game'.showing_solution THEN OnSolution(game') ELSE OnLevelSong(game')
          /\ (SpaceHandled /\ game'.pc = "over") =>
               /\ ~game'.showing_solution
               /\ game'.index = Len(GameLevels)
               /\ game'.song = GameLevels[Len(GameLevels)].solution
               /\ \A s \in Songs : Device(s)' = "None"]_vars
    /\ []((Idle(MAIN) /\ game.pc = "running") =>
            (game.showing_solution <=> OnSolution(game)))

\* The second level's song has been made current by a Space press and the
\* game is about to start it.
C31_Witness ==
    /\ mcall.op = "SongGame.space"
    /\ MainAt("play_open", "hint2")
    /\ game.index = 1 /\ ~game.showing_solution
    /\ game.song = "hint2"

\* C32: whenever SongGame._draw calls self._draw_viz it is set and is the
\* behaviour of the current song's type, so the call raises no error; this
\* holds whenever a frame can be drawn, also after a rewind has put a SongPair
\* back.
C32_DrawVizMatchesSong ==
    /\ [](game.pc # "DrawError")
    /\ []((game.pc = "running" /\ Idle(MAIN) /\ Song_playing(game.song)) =>
            /\ game.draw_viz # "none"
            /\ game.draw_viz = "pair" <=> game.song = "pair")
    /\ [][(mcall.op # "SongGame._draw" /\ mcall'.op = "SongGame._draw") =>
            stack'[MAIN] = IF game.song = "pair"
                           THEN <<Step("fft", "base", "none"), Step("fft", "vocals", "none"),
                                  Step("power", "vocals", "none")>>
                           ELSE <<Step("fft", game.song, "none"), Step("fft", game.song, "none"),
                                  Step("power", game.song, "none")>>]_vars

\* A frame of the SongPair is being drawn after a rewind has put it back.
C32_Witness ==
    /\ mcall.op = "SongGame._draw"
    /\ MainAt("fft", "base")
    /\ game.song = "pair" /\ game.draw_viz = "pair"
    /\ index[REWIND] > 0

\* C33: in a rewind sequence of SongGame both play() calls reset the cursor:
\* the device of the cue, and later the device of the song put back, is opened
\* with the cursor of its track at chunk 0 (for a SongPair: of both lanes),
\* wherever the cursor stood before.
C33_RewindRestartsTracks ==
    [][mcall.op = "SongGame.rewind" =>
        \A s \in Songs :
            /\ MainRuns("play_check", s) => ~StreamIsSet(s)
            /\ MainRuns("play_reset", s) => index'[s] = 0
            /\ MainRuns("play_open", s) =>
                /\ s \in {REWIND, Primary(game.old_song)}
                /\ index[s] = 0 /\ index'[s] = 0
                /\ Device(s)' = "active"
                /\ (s = "base") => index["vocals"] = 0 /\ index'["vocals"] = 0]_vars

\* The play() that puts the SongPair back is about to reset the cursor of its
\* primary lane, which still stands where the click found it, past chunk 0;
\* the cue has been played from its own cursor reset.
C33_Witness ==
    /\ mcall.op = "SongGame.rewind"
    /\ game.old_song = "pair" /\ game.song = "pair"
    /\ MainAt("play_reset", "base")
    /\ index["base"] > 0
    /\ index[REWIND] > 0

\* C34: in PokeGame the hint flag and the solution flag are never both set,
\* whatever Space, hint-key and mouse events are handled; a Space press
\* toggles the solution flag and clears the hint flag; once the game has been
\* started, the level index changes only in the handling of a Space press
\* made while the solution was shown, by one.
C34_HintExcludesSolution ==
    /\ [](~(game.showing_hint /\ game.showing_solution))
    /\ [][/\ (mcall.op # "PokeGame.space" /\ mcall'.op = "PokeGame.space") =>
               /\ game'.showing_solution = ~game.showing_solution
               /\ ~game'.showing_hint
               /\ game'.index = game.index
          /\ game'.index # game.index =>
               /\ game'.index = game.index + 1
               /\ mcall.op \in {"PokeGame.start", "PokeGame.space"}
               /\ mcall.op = "PokeGame.start" <=> game.index = -1
               /\ ~game.showing_solution
          /\ (mcall.op = "PokeGame.space" /\ game.showing_solution) =>
               game'.index = game.index]_vars

\* The second Pokemon is reached by two Space presses; its silhouette is
\* shown by the hint key, and a click on the vinyl plays the cry again.
C34_Witness ==
    /\ mcall.op = "PokeGame.mouse"
    /\ game.index = 1
    /\ game.showing_hint /\ ~game.showing_solution
    /\ MainAt("play_open", "cry2")

TypeOK ==
    /\ \A s \in Songs : index[s] \in 0..MaxFrames
    /\ \A s \in Songs : lock[s] \in {"free"} \cup Threads
    /\ \A s \in Songs : stream[s] \in {"None", "active", "complete", "inactive"}
    /\ \A s \in Songs : opened[s] \in {"None", "active", "complete", "inactive"}

====
